---------------------------- MODULE Spec2Model ----------------------------
(***************************************************************************)
(* tailwind.config.js: an ES module whose only statement is                *)
(* `export default { ... }`.  The model evaluates that object literal      *)
(* property definition by property definition, as the language does, and   *)
(* lets the consuming build tool read the exported value.                  *)
(*                                                                         *)
(* A JavaScript string is the sequence of its characters, so that the      *)
(* syntax of a token value (a hex colour, an animation shorthand) and the  *)
(* splitting of a class name are computed, not assumed.                    *)
(***************************************************************************)
EXTENDS Naturals, Sequences, FiniteSets

VARIABLES exported, log, emitted

vars == <<exported, log, emitted>>

\* The number of property reads the consumer makes in one build.
MaxReads == 2

-----------------------------------------------------------------------------
(* JavaScript values.  Every value has the same four fields; the ones its  *)
(* type does not use are empty.                                            *)

JSValue(t, c, e, p) == [type |-> t, chars |-> c, elems |-> e, props |-> p]

\* The export binding before the module body has run.
Uninitialized == JSValue("uninitialized", <<>>, <<>>, <<>>)

Undefined == JSValue("undefined", <<>>, <<>>, <<>>)

\* A string literal '...'.
Str(c) == JSValue("string", c, <<>>, <<>>)

\* An array literal [ ... ].
Arr(e) == JSValue("array", <<>>, e, <<>>)

\* A property definition `key: value` of an object literal.
Prop(k, v) == [key |-> k, kind |-> "init", value |-> v]

\* An object literal { ... }: the property definitions are evaluated in
\* source order and a later definition of a key replaces an earlier one.
ObjectLiteral(defs) ==
  LET keys == {defs[i].key : i \in DOMAIN defs}
      last(k) == CHOOSE i \in DOMAIN defs :
                   /\ defs[i].key = k
                   /\ \A j \in DOMAIN defs : defs[j].key = k => j <= i
  IN  JSValue("object", <<>>, <<>>,
              [k \in keys |-> [kind |-> defs[last(k)].kind,
                               value |-> defs[last(k)].value]])

-----------------------------------------------------------------------------
(* The property names and string literals of the source, character by      *)
(* character.                                                              *)

k_content == <<"c", "o", "n", "t", "e", "n", "t">>
k_theme == <<"t", "h", "e", "m", "e">>
k_extend == <<"e", "x", "t", "e", "n", "d">>
k_colors == <<"c", "o", "l", "o", "r", "s">>
k_primary == <<"p", "r", "i", "m", "a", "r", "y">>
k_secondary == <<"s", "e", "c", "o", "n", "d", "a", "r", "y">>
k_background == <<"b", "a", "c", "k", "g", "r", "o", "u", "n", "d">>
k_boxShadow == <<"b", "o", "x", "S", "h", "a", "d", "o", "w">>
k_glow == <<"g", "l", "o", "w">>
k_animation == <<"a", "n", "i", "m", "a", "t", "i", "o", "n">>
k_pulse_slow == <<"p", "u", "l", "s", "e", "-", "s", "l", "o", "w">>
k_plugins == <<"p", "l", "u", "g", "i", "n", "s">>

s_index_html == <<".", "/", "i", "n", "d", "e", "x", ".", "h", "t", "m", "l">>
s_src_glob == <<".", "/", "s", "r", "c", "/", "*", "*", "/", "*", ".", "{", "j", "s", ",", "t", "s", ",", "j", "s", "x", ",", "t", "s", "x", "}">>
s_primary == <<"#", "F", "F", "5", "D", "2", "B">>
s_secondary == <<"#", "F", "F", "5", "D", "2", "B">>
s_background == <<"#", "1", "7", "1", "7", "1", "7">>
s_glow == <<"0", " ", "0", " ", "1", "5", "p", "x", " ", "r", "g", "b", "a", "(", "2", "5", "5", ",", " ", "9", "3", ",", " ", "4", "3", ",", " ", "0", ".", "3", ")">>
s_pulse_slow == <<"p", "u", "l", "s", "e", " ", "3", "s", " ", "c", "u", "b", "i", "c", "-", "b", "e", "z", "i", "e", "r", "(", "0", ".", "4", ",", " ", "0", ",", " ", "0", ".", "6", ",", " ", "1", ")", " ", "i", "n", "f", "i", "n", "i", "t", "e">>

-----------------------------------------------------------------------------
(* The object literal of the source, inside out.                           *)

\* An accessor property `get key() { ... }`: results are the values its
\* getter may return.  The source defines none; the variants below do.
Getter(k, results) == [key |-> k, kind |-> "get", value |-> Arr(results)]

\* Variant: the second glob is left out.
contentOneGlob == Arr(<<Str(s_index_html)>>)

content == Arr(<<Str(s_index_html), Str(s_src_glob)>>)

\* Variant: primary is computed at each read.
colorsDefsGetter ==
  << Getter(k_primary, <<Str(s_primary), Str(s_background)>>),
     Prop(k_secondary, Str(s_secondary)),
     Prop(k_background, Str(s_background)) >>

\* Variant: a hex digit of background is lost.
colorsDefsShortHex ==
  << Prop(k_primary, Str(s_primary)),
     Prop(k_secondary, Str(s_secondary)),
     Prop(k_background, Str(<<"#", "1", "7", "1", "7", "1">>)) >>

\* Variant: secondary gets a colour of its own.
colorsDefsOwnSecondary ==
  << Prop(k_primary, Str(s_primary)),
     Prop(k_secondary, Str(<<"#", "2", "B", "5", "D", "F", "F">>)),
     Prop(k_background, Str(s_background)) >>

\* Variant: the second colour is named primary too.
colorsDefsDuplicate ==
  << Prop(k_primary, Str(s_primary)),
     Prop(k_primary, Str(s_secondary)),
     Prop(k_background, Str(s_background)) >>

colorsDefs ==
  << Prop(k_primary, Str(s_primary)),
     Prop(k_secondary, Str(s_secondary)),
     Prop(k_background, Str(s_background)) >>

\* Variant: the glow's alpha is 0.5.
boxShadowDefsAlpha ==
  << Prop(k_glow, Str(<<"0", " ", "0", " ", "1", "5", "p", "x", " ", "r", "g", "b", "a", "(", "2", "5", "5", ",", " ", "9", "3", ",", " ", "4", "3", ",", " ", "0", ".", "5", ")">>)) >>

boxShadowDefs == << Prop(k_glow, Str(s_glow)) >>

\* Variant: the timing function is left out.
animationDefsNoTiming ==
  << Prop(k_pulse_slow, Str(<<"p", "u", "l", "s", "e", " ", "3", "s", " ", "i", "n", "f", "i", "n", "i", "t", "e">>)) >>

animationDefs == << Prop(k_pulse_slow, Str(s_pulse_slow)) >>

\* Variant: the descriptor defines the keyframes of pulse itself.
extendDefsKeyframes ==
  << Prop(k_colors, ObjectLiteral(colorsDefs)),
     Prop(k_boxShadow, ObjectLiteral(boxShadowDefs)),
     Prop(k_animation, ObjectLiteral(animationDefs)),
     Prop(<<"k", "e", "y", "f", "r", "a", "m", "e", "s">>,
          ObjectLiteral(<<Prop(<<"p", "u", "l", "s", "e">>, ObjectLiteral(<<>>))>>)) >>

extendDefs ==
  << Prop(k_colors, ObjectLiteral(colorsDefs)),
     Prop(k_boxShadow, ObjectLiteral(boxShadowDefs)),
     Prop(k_animation, ObjectLiteral(animationDefs)) >>

\* Variant: the categories sit directly under theme, replacing the defaults.
themeDefsNoExtend == extendDefs

themeDefs == << Prop(k_extend, ObjectLiteral(extendDefs)) >>

\* Variant: one plugin is registered.
pluginsOne == Arr(<<ObjectLiteral(<<>>)>>)

plugins == Arr(<<>>)

DefaultExportDefs ==
  << Prop(k_content, content),
     Prop(k_theme, ObjectLiteral(themeDefs)),
     Prop(k_plugins, plugins) >>

DefaultExport == ObjectLiteral(DefaultExportDefs)

-----------------------------------------------------------------------------
(* Reading the exported value.                                             *)

DecimalDigits == <<"0", "1", "2", "3", "4", "5", "6", "7", "8", "9">>

DigitValue(c) == (CHOOSE i \in DOMAIN DecimalDigits : DecimalDigits[i] = c) - 1

\* An array index as a property key: a non-empty string of decimal digits.
IsIndex(k) ==
  /\ k # <<>>
  /\ \A i \in DOMAIN k : \E d \in DOMAIN DecimalDigits : DecimalDigits[d] = k[i]

RECURSIVE ToIndex(_)
ToIndex(k) ==
  IF k = <<>> THEN 0
  ELSE 10 * ToIndex(SubSeq(k, 1, Len(k) - 1)) + DigitValue(k[Len(k)])

\* The values a read of v.path[1].path[2]... may return.  A property defined
\* with `key: value` returns the value stored at definition; a property
\* defined by an accessor returns whatever its getter returns at that read.
\* A missing property reads as undefined, and reading a property of
\* undefined throws: no value.
RECURSIVE Results(_, _)
Results(v, path) ==
  IF path = <<>> THEN {v}
  ELSE LET k == Head(path)
           rest == Tail(path)
       IN  IF v.type = "object"
           THEN IF k \in DOMAIN v.props
                THEN IF v.props[k].kind = "init"
                     THEN Results(v.props[k].value, rest)
                     ELSE UNION {Results(v.props[k].value.elems[i], rest) :
                                   i \in DOMAIN v.props[k].value.elems}
                ELSE IF rest = <<>> THEN {Undefined} ELSE {}
           ELSE IF v.type = "array"
           THEN IF IsIndex(k) /\ ToIndex(k) < Len(v.elems)
                THEN Results(v.elems[ToIndex(k) + 1], rest)
                ELSE IF rest = <<>> THEN {Undefined} ELSE {}
           ELSE IF v.type = "string" /\ rest = <<>> THEN {Undefined} ELSE {}

\* The value of a read, where the read has one.
Get(v, path) ==
  IF Results(v, path) = {} THEN Undefined ELSE CHOOSE r \in Results(v, path) : TRUE

-----------------------------------------------------------------------------
(* The consumer: the build tool that imports the module, reads the         *)
(* descriptor and resolves class names against it.                         *)

k_keyframes == <<"k", "e", "y", "f", "r", "a", "m", "e", "s">>
k_0 == <<"0">>
k_1 == <<"1">>
k_2 == <<"2">>

ExtendPath == <<k_theme, k_extend>>
ColorsPath == <<k_theme, k_extend, k_colors>>
BoxShadowPath == <<k_theme, k_extend, k_boxShadow>>
AnimationPath == <<k_theme, k_extend, k_animation>>
KeyframesPath == <<k_theme, k_extend, k_keyframes>>

\* The property paths the consumer reads: the schema's fields, the tokens,
\* and some that a descriptor need not define.
ReadPaths ==
  { <<>>, <<k_content>>, <<k_content, k_0>>, <<k_content, k_1>>, <<k_content, k_2>>,
    <<k_theme>>, ExtendPath, ColorsPath, BoxShadowPath, AnimationPath, KeyframesPath,
    Append(ColorsPath, k_primary), Append(ColorsPath, k_secondary),
    Append(ColorsPath, k_background), Append(BoxShadowPath, k_glow),
    Append(AnimationPath, k_pulse_slow), <<k_plugins>>, <<k_plugins, k_0>> }

ShadowGlowClass == <<"s", "h", "a", "d", "o", "w", "-", "g", "l", "o", "w">>
ShadowPrimaryClass == <<"s", "h", "a", "d", "o", "w", "-", "p", "r", "i", "m", "a", "r", "y">>
u_shadow == <<"s", "h", "a", "d", "o", "w">>
p_box_shadow == <<"b", "o", "x", "-", "s", "h", "a", "d", "o", "w">>

\* The class names found in the scanned files.
Classes == {ShadowGlowClass, ShadowPrimaryClass}

\* A class name is <utility>-<token>: split at the first dash.
FirstDash(s) ==
  IF \E i \in DOMAIN s : s[i] = "-"
  THEN CHOOSE i \in DOMAIN s : s[i] = "-" /\ \A j \in 1..(i - 1) : s[j] # "-"
  ELSE Len(s) + 1

Utility(cls) == SubSeq(cls, 1, FirstDash(cls) - 1)

Token(cls) == SubSeq(cls, FirstDash(cls) + 1, Len(cls))

\* The rules the descriptor d yields for a class name: shadow-<token> is
\* `box-shadow: <value>;` for the value of theme.extend.boxShadow.<token>.
Rules(d, cls) ==
  IF Utility(cls) = u_shadow
  THEN { [class |-> cls, rule |-> p_box_shadow \o <<":", " ">> \o r.chars \o <<";">>] :
           r \in {x \in Results(d, Append(BoxShadowPath, Token(cls))) : x.type = "string"} }
  ELSE {}

-----------------------------------------------------------------------------
(* The state machine.                                                      *)

Init ==
  /\ exported = Uninitialized
  /\ log = <<>>
  /\ emitted = {}

\* The module body runs, once: `export default { ... }`.
Evaluate ==
  /\ exported = Uninitialized
  /\ exported' = DefaultExport
  /\ UNCHANGED <<log, emitted>>

\* The consumer reads one property path of the imported descriptor.
Read ==
  /\ exported # Uninitialized
  /\ Len(log) < MaxReads
  /\ \E p \in ReadPaths : \E r \in Results(exported, p) :
       log' = Append(log, [path |-> p, result |-> r])
  /\ UNCHANGED <<exported, emitted>>

\* The consumer resolves one class name found in the scanned files.
Resolve ==
  /\ exported # Uninitialized
  /\ \E cls \in Classes : emitted' = emitted \cup Rules(exported, cls)
  /\ UNCHANGED <<exported, log>>

Next == Evaluate \/ Read \/ Resolve

Spec == Init /\ [][Next]_vars

-----------------------------------------------------------------------------
(* What the properties below are stated with.                              *)

Evaluated == exported # Uninitialized

\* The reads of path p made so far.
ReadsOf(p) == {i \in DOMAIN log : log[i].path = p}

IsObject(v) == v.type = "object"

\* Every property of the object v was defined as `name: '...'`.
IsTokenMap(v) ==
  /\ IsObject(v)
  /\ \A k \in DOMAIN v.props : v.props[k].kind = "init" /\ v.props[k].value.type = "string"

StartsWith(s, prefix) ==
  Len(s) >= Len(prefix) /\ SubSeq(s, 1, Len(prefix)) = prefix

\* The strings of the specification, character by character.
x_index_html == <<".", "/", "i", "n", "d", "e", "x", ".", "h", "t", "m", "l">>
x_src_glob == <<".", "/", "s", "r", "c", "/", "*", "*", "/", "*", ".", "{", "j", "s", ",", "t", "s", ",", "j", "s", "x", ",", "t", "s", "x", "}">>
x_FF5D2B == <<"#", "F", "F", "5", "D", "2", "B">>
x_171717 == <<"#", "1", "7", "1", "7", "1", "7">>
x_glow_value == <<"0", " ", "0", " ", "1", "5", "p", "x", " ", "r", "g", "b", "a", "(", "2", "5", "5", ",", " ", "9", "3", ",", " ", "4", "3", ",", " ", "0", ".", "3", ")">>
x_glow_rule == <<"b", "o", "x", "-", "s", "h", "a", "d", "o", "w", ":", " ", "0", " ", "0", " ", "1", "5", "p", "x", " ", "r", "g", "b", "a", "(", "2", "5", "5", ",", " ", "9", "3", ",", " ", "4", "3", ",", " ", "0", ".", "3", ")", ";">>
x_pulse_slow_value == <<"p", "u", "l", "s", "e", " ", "3", "s", " ", "c", "u", "b", "i", "c", "-", "b", "e", "z", "i", "e", "r", "(", "0", ".", "4", ",", " ", "0", ",", " ", "0", ".", "6", ",", " ", "1", ")", " ", "i", "n", "f", "i", "n", "i", "t", "e">>
x_pulse == <<"p", "u", "l", "s", "e">>
x_3s == <<"3", "s">>
x_bezier == <<"c", "u", "b", "i", "c", "-", "b", "e", "z", "i", "e", "r", "(", "0", ".", "4", ",", " ", "0", ",", " ", "0", ".", "6", ",", " ", "1", ")">>
x_infinite == <<"i", "n", "f", "i", "n", "i", "t", "e">>

(* CSS value syntax. *)

HexDigits == {"0", "1", "2", "3", "4", "5", "6", "7", "8", "9", "a", "b", "c", "d", "e", "f", "A", "B", "C", "D", "E", "F"}

Letters == {"a", "b", "c", "d", "e", "f", "g", "h", "i", "j", "k", "l", "m", "n", "o", "p", "q", "r", "s", "t", "u", "v", "w", "x", "y", "z", "A", "B", "C", "D", "E", "F", "G", "H", "I", "J", "K", "L", "M", "N", "O", "P", "Q", "R", "S", "T", "U", "V", "W", "X", "Y", "Z"}

\* ^#[0-9A-Fa-f]{6}$
IsHexColor(s) ==
  /\ Len(s) = 7
  /\ s[1] = "#"
  /\ \A i \in 2..Len(s) : s[i] \in HexDigits

ColorFunctions ==
  { <<"r", "g", "b", "(">>, <<"r", "g", "b", "a", "(">>,
    <<"h", "s", "l", "(">>, <<"h", "s", "l", "a", "(">> }

\* rgb(...), rgba(...), hsl(...), hsla(...)
IsColorFunction(s) ==
  /\ \E f \in ColorFunctions : StartsWith(s, f)
  /\ s[Len(s)] = ")"

\* The components of a shorthand: split at the spaces outside parentheses.
RECURSIVE Components(_, _, _, _)
Components(s, depth, cur, acc) ==
  IF s = <<>> THEN (IF cur = <<>> THEN acc ELSE Append(acc, cur))
  ELSE IF Head(s) = " " /\ depth = 0
       THEN Components(Tail(s), depth, <<>>, IF cur = <<>> THEN acc ELSE Append(acc, cur))
       ELSE Components(Tail(s),
                       IF Head(s) = "(" THEN depth + 1
                       ELSE IF Head(s) = ")" /\ depth > 0 THEN depth - 1 ELSE depth,
                       Append(cur, Head(s)), acc)

Shorthand(s) == Components(s, 0, <<>>, <<>>)

\* Digits with at most one decimal point.
IsNumber(s) ==
  /\ \E i \in DOMAIN s : IsIndex(<<s[i]>>)
  /\ \A i \in DOMAIN s : IsIndex(<<s[i]>>) \/ s[i] = "."
  /\ Cardinality({i \in DOMAIN s : s[i] = "."}) <= 1

\* <number>s or <number>ms
IsDuration(s) ==
  \/ Len(s) >= 2 /\ s[Len(s)] = "s" /\ IsNumber(SubSeq(s, 1, Len(s) - 1))
  \/ Len(s) >= 3 /\ s[Len(s)] = "s" /\ s[Len(s) - 1] = "m"
       /\ IsNumber(SubSeq(s, 1, Len(s) - 2))

TimingKeywords == {<<"l", "i", "n", "e", "a", "r">>, <<"e", "a", "s", "e">>, <<"e", "a", "s", "e", "-", "i", "n">>, <<"e", "a", "s", "e", "-", "o", "u", "t">>, <<"e", "a", "s", "e", "-", "i", "n", "-", "o", "u", "t">>, <<"s", "t", "e", "p", "-", "s", "t", "a", "r", "t">>, <<"s", "t", "e", "p", "-", "e", "n", "d">>}

IsTimingFunction(s) ==
  \/ s \in TimingKeywords
  \/ /\ StartsWith(s, <<"c", "u", "b", "i", "c", "-", "b", "e", "z", "i", "e", "r", "(">>)
        \/ StartsWith(s, <<"s", "t", "e", "p", "s", "(">>)
     /\ s[Len(s)] = ")"

IsIterationCount(s) == s = x_infinite \/ IsNumber(s)

\* An identifier that is none of the shorthand's keywords.
IsKeyframeName(s) ==
  /\ s # <<>>
  /\ s[1] \in Letters
  /\ \A i \in DOMAIN s : s[i] \in Letters \/ IsIndex(<<s[i]>>) \/ s[i] \in {"-", "_"}
  /\ s \notin TimingKeywords
  /\ s # x_infinite

\* name duration timing-function iteration-count
IsAnimationShorthand(s) ==
  LET c == Shorthand(s)
  IN  /\ Len(c) = 4
      /\ IsKeyframeName(c[1])
      /\ IsDuration(c[2])
      /\ IsTimingFunction(c[3])
      /\ IsIterationCount(c[4])

-----------------------------------------------------------------------------
(* The properties.                                                         *)

\* C1: the exported descriptor has exactly the fields content, theme and
\* plugins; theme has exactly the field extend; theme.extend has exactly the
\* categories colors, boxShadow and animation, each a mapping from token
\* names to strings.
C1_Shape ==
  Evaluated =>
    /\ IsObject(exported)
    /\ DOMAIN exported.props = {k_content, k_theme, k_plugins}
    /\ IsObject(Get(exported, <<k_theme>>))
    /\ DOMAIN Get(exported, <<k_theme>>).props = {k_extend}
    /\ IsObject(Get(exported, ExtendPath))
    /\ DOMAIN Get(exported, ExtendPath).props = {k_colors, k_boxShadow, k_animation}
    /\ \A cat \in {ColorsPath, BoxShadowPath, AnimationPath} :
         IsTokenMap(Get(exported, cat))

\* The consumer has read the whole descriptor and its theme.extend.
C1_Witness ==
  /\ \E i \in ReadsOf(<<>>) : Cardinality(DOMAIN log[i].result.props) = 3
  /\ \E i \in ReadsOf(ExtendPath) : Cardinality(DOMAIN log[i].result.props) = 3

\* C2: content is a non-empty array of strings, and is exactly
\* ["./index.html", "./src/**/*.{js,ts,jsx,tsx}"].
C2_Content ==
  Evaluated =>
    LET c == Get(exported, <<k_content>>)
    IN  /\ c.type = "array"
        /\ Len(c.elems) > 0
        /\ \A i \in DOMAIN c.elems : c.elems[i].type = "string"
        /\ c.elems = <<Str(x_index_html), Str(x_src_glob)>>
        /\ Results(exported, <<k_content, k_2>>) = {Undefined}

\* The consumer has read both globs.
C2_Witness ==
  /\ \E i \in ReadsOf(<<k_content, k_0>>) : log[i].result.chars = x_index_html
  /\ \E i \in ReadsOf(<<k_content, k_1>>) : log[i].result.chars = x_src_glob

\* C3: once defined the descriptor never changes, and all reads of one path
\* return the same value.
C3_Immutable ==
  /\ [](\A i \in DOMAIN log : \A j \in DOMAIN log :
          log[i].path = log[j].path => log[i].result = log[j].result)
  /\ [][Evaluated => exported' = exported]_vars

\* The consumer has read one token twice.
C3_Witness ==
  \E i \in DOMAIN log : \E j \in DOMAIN log :
    i # j /\ log[i].path = log[j].path /\ log[i].result.type = "string"

\* C4: boxShadow has the single token glow, its value is
\* "0 0 15px rgba(255, 93, 43, 0.3)", and the class shadow-glow resolves to
\* the rule "box-shadow: 0 0 15px rgba(255, 93, 43, 0.3);" and no other.
C4_ShadowGlow ==
  Evaluated =>
    /\ DOMAIN Get(exported, BoxShadowPath).props = {k_glow}
    /\ Results(exported, Append(BoxShadowPath, k_glow)) = {Str(x_glow_value)}
    /\ Rules(exported, ShadowGlowClass) = {[class |-> ShadowGlowClass, rule |-> x_glow_rule]}
    /\ \A e \in emitted : e.class = ShadowGlowClass /\ e.rule = x_glow_rule

\* The consumer has resolved shadow-glow.
C4_Witness == \E e \in emitted : e.class = ShadowGlowClass

\* C5: every value under colors is '#' and six hexadecimal digits, or a CSS
\* colour function.
C5_ValidColors ==
  Evaluated =>
    LET c == Get(exported, ColorsPath)
    IN  /\ IsTokenMap(c)
        /\ \A k \in DOMAIN c.props :
             \/ IsHexColor(c.props[k].value.chars)
             \/ IsColorFunction(c.props[k].value.chars)

\* The consumer has read colours that are hex colours.
C5_Witness ==
  /\ \E i \in ReadsOf(Append(ColorsPath, k_background)) : IsHexColor(log[i].result.chars)
  /\ \E i \in ReadsOf(Append(ColorsPath, k_primary)) : IsHexColor(log[i].result.chars)

\* C6: colors has exactly primary, secondary and background, with the values
\* "#FF5D2B", "#FF5D2B" and "#171717": primary and secondary are the same
\* and differ from background.
C6_Colors ==
  Evaluated =>
    LET c == Get(exported, ColorsPath)
        primary == Results(exported, Append(ColorsPath, k_primary))
        secondary == Results(exported, Append(ColorsPath, k_secondary))
        background == Results(exported, Append(ColorsPath, k_background))
    IN  /\ DOMAIN c.props = {k_primary, k_secondary, k_background}
        /\ primary = {Str(x_FF5D2B)}
        /\ secondary = {Str(x_FF5D2B)}
        /\ background = {Str(x_171717)}
        /\ primary = secondary
        /\ primary # background

\* The consumer has read primary and secondary, and got the same value.
C6_Witness ==
  \E i \in ReadsOf(Append(ColorsPath, k_primary)) :
    \E j \in ReadsOf(Append(ColorsPath, k_secondary)) :
      log[i].result = log[j].result /\ log[i].result.type = "string"

\* C7: every value under animation is a shorthand of a keyframe name, a
\* duration, a timing function and an iteration count; the only token is
\* pulse-slow, "pulse 3s cubic-bezier(0.4, 0, 0.6, 1) infinite".
C7_Animation ==
  Evaluated =>
    LET a == Get(exported, AnimationPath)
    IN  /\ IsTokenMap(a)
        /\ \A k \in DOMAIN a.props : IsAnimationShorthand(a.props[k].value.chars)
        /\ DOMAIN a.props = {k_pulse_slow}
        /\ Results(exported, Append(AnimationPath, k_pulse_slow)) = {Str(x_pulse_slow_value)}
        /\ Shorthand(a.props[k_pulse_slow].value.chars) = <<x_pulse, x_3s, x_bezier, x_infinite>>

\* The consumer has read pulse-slow, a shorthand of four components.
C7_Witness ==
  \E i \in ReadsOf(Append(AnimationPath, k_pulse_slow)) :
    Len(Shorthand(log[i].result.chars)) = 4

\* C8: plugins is an array and it is empty, whenever the descriptor is read.
C8_Plugins ==
  Evaluated =>
    /\ Results(exported, <<k_plugins>>) = {Arr(<<>>)}
    /\ Get(exported, <<k_plugins>>).type = "array"
    /\ Len(Get(exported, <<k_plugins>>).elems) = 0
    /\ \A i \in ReadsOf(<<k_plugins>>) :
         log[i].result.type = "array" /\ Len(log[i].result.elems) = 0
    /\ \A i \in ReadsOf(<<k_plugins, k_0>>) : log[i].result = Undefined

\* The consumer has read plugins and its first element.
C8_Witness ==
  /\ ReadsOf(<<k_plugins>>) # {}
  /\ ReadsOf(<<k_plugins, k_0>>) # {}

NoDuplicateKeys(defs) ==
  \A i \in DOMAIN defs : \A j \in DOMAIN defs : defs[i].key = defs[j].key => i = j

\* C9: in each of colors, boxShadow and animation no token name is defined
\* twice: the category has as many tokens as the source has definitions, and
\* the lookup of each token yields the one value of its definition.
C9_UniqueTokens ==
  Evaluated =>
    \A cat \in { <<ColorsPath, colorsDefs>>, <<BoxShadowPath, boxShadowDefs>>,
                 <<AnimationPath, animationDefs>> } :
      /\ NoDuplicateKeys(cat[2])
      /\ Cardinality(DOMAIN Get(exported, cat[1]).props) = Len(cat[2])
      /\ \A i \in DOMAIN cat[2] :
           Results(exported, Append(cat[1], cat[2][i].key)) = {cat[2][i].value}

\* The consumer has read colors, which has three tokens.
C9_Witness ==
  \E i \in ReadsOf(ColorsPath) :
    Cardinality(DOMAIN log[i].result.props) = Len(colorsDefs) /\ Len(colorsDefs) = 3

\* C10: theme.extend has no keyframes category, so the keyframe name of no
\* animation token resolves to a token of the descriptor.
C10_NoKeyframes ==
  Evaluated =>
    /\ k_keyframes \notin DOMAIN Get(exported, ExtendPath).props
    /\ Results(exported, KeyframesPath) = {Undefined}
    /\ \A k \in DOMAIN Get(exported, AnimationPath).props :
         LET name == Shorthand(Get(exported, Append(AnimationPath, k)).chars)[1]
         IN  Results(exported, Append(KeyframesPath, name)) = {}
    /\ \A i \in ReadsOf(KeyframesPath) : log[i].result = Undefined

\* The consumer has read pulse-slow, which names pulse, and looked for
\* theme.extend.keyframes.
C10_Witness ==
  /\ \E i \in ReadsOf(Append(AnimationPath, k_pulse_slow)) :
       Shorthand(log[i].result.chars)[1] = x_pulse
  /\ ReadsOf(KeyframesPath) # {}

=============================================================================
